---- MODULE Spec2Model ----
(***************************************************************************)
(* Model of the two-point interpolation solvers                            *)
(*   TwoPointInterpolation      (include/two_point_interpolation/          *)
(*                               constant_acc.hpp)                         *)
(*   TwoPointInterpolationJerk  (include/two_point_interpolation/          *)
(*                               constant_jerk.hpp)                        *)
(*                                                                         *)
(* The C++ code computes with doubles.  The model computes with exact real *)
(* numbers of the form (x + y*sqrt(D))/c, x, y, c integers, c > 0, where D *)
(* is the square-free radicand produced by the one std::sqrt call of the   *)
(* planner.  A number is the triple <<x, y, c>> in lowest terms; D travels *)
(* with the solver state (field rad).  The triple <<0, 0, 0>> marks a      *)
(* field that the constructor leaves uninitialized.                        *)
(***************************************************************************)
EXTENDS Integers, Sequences, FiniteSets, TLC

-----------------------------------------------------------------------------
(* Exact arithmetic standing for the C++ double operators                  *)

IAbs(n) == IF n < 0 THEN -n ELSE n

ISign(n) == IF n > 0 THEN 1 ELSE IF n < 0 THEN -1 ELSE 0

RECURSIVE GCD(_, _)
GCD(m, n) == IF n = 0 THEN m ELSE GCD(n, m % n)

\* <<x, y, c>> in lowest terms with a positive denominator
Norm(x, y, c) ==
    LET g == GCD(GCD(IAbs(x), IAbs(y)), IAbs(c))
        s == IF c < 0 THEN -1 ELSE 1
    IN  <<(s * x) \div g, (s * y) \div g, (s * c) \div g>>

\* the rational n/d and the integer n
Q(n, d) == Norm(n, 0, d)
I(n) == <<n, 0, 1>>

\* an uninitialized double
U == <<0, 0, 0>>
IsU(u) == u[3] = 0

Add(u, w) == Norm(u[1] * w[3] + w[1] * u[3], u[2] * w[3] + w[2] * u[3], u[3] * w[3])
Neg(u) == <<-u[1], -u[2], u[3]>>
Sub(u, w) == Add(u, Neg(w))
Mul(D, u, w) ==
    Norm(u[1] * w[1] + u[2] * w[2] * D, u[1] * w[2] + u[2] * w[1], u[3] * w[3])

\* 1/w = c*(x - y*sqrt(D)) / (x^2 - y^2*D); w is not zero
Inv(D, w) == Norm(w[3] * w[1], -(w[3] * w[2]), w[1] * w[1] - w[2] * w[2] * D)
Div(D, u, w) == Mul(D, u, Inv(D, w))

\* the sign of x + y*sqrt(D); D is not a perfect square when y # 0
Sgn(D, u) ==
    LET x == u[1]
        y == u[2]
    IN  IF y = 0 THEN ISign(x)
        ELSE IF x = 0 THEN ISign(y)
        ELSE IF x > 0 /\ y > 0 THEN 1
        ELSE IF x < 0 /\ y < 0 THEN -1
        ELSE IF x > 0 THEN ISign(x * x - y * y * D)
        ELSE ISign(y * y * D - x * x)

Lt(D, u, w) == Sgn(D, Sub(u, w)) < 0
Le(D, u, w) == Sgn(D, Sub(u, w)) <= 0
Gt(D, u, w) == Lt(D, w, u)
Ge(D, u, w) == Le(D, w, u)

\* std::fabs
Fabs(D, u) == IF Sgn(D, u) < 0 THEN Neg(u) ELSE u

\* std::min
Min(D, u, w) == IF Lt(D, w, u) THEN w ELSE u

\* the largest m with m*m dividing n (n > 0), searched downwards from m
RECURSIVE SquareDown(_, _)
SquareDown(n, m) ==
    IF m * m <= n /\ n % (m * m) = 0 THEN m ELSE SquareDown(n, m - 1)

RECURSIVE RootUp(_, _)
RootUp(n, m) == IF (m + 1) * (m + 1) > n THEN m ELSE RootUp(n, m + 1)

SquarePart(n) == SquareDown(n, RootUp(n, 1))

\* std::sqrt of the positive rational q = n/d: sqrt(n*d)/d = m*sqrt(D)/d with
\* D square-free.  The result is the pair <<number, D>>; D = 1 when the root
\* is rational.
Sqrt(q) ==
    LET n == q[1] * q[3]
        m == SquarePart(n)
        D == n \div (m * m)
    IN  IF D = 1 THEN <<Q(m, q[3]), 1>> ELSE <<Norm(0, m, q[3]), D>>

-----------------------------------------------------------------------------
(* constant_acc.hpp: free functions                                        *)

\* constexpr double DECEL_DISTANCE_TOLERANCE = 0.02
DECEL_DISTANCE_TOLERANCE == Q(2, 100)

vInteg(D, v0, a, dt) == Add(v0, Mul(D, a, dt))

pInteg(D, p0, v0, a, dt) ==
    Add(Add(p0, Mul(D, v0, dt)), Mul(D, Mul(D, Mul(D, Q(1, 2), a), dt), dt))

\* the size_t count clamps at values.size()
RECURSIVE sum(_, _)
sum(values, count) ==
    IF count = 0 \/ Len(values) = 0 THEN I(0)
    ELSE IF count > Len(values) THEN sum(values, Len(values))
    ELSE Add(sum(values, count - 1), values[count])

-----------------------------------------------------------------------------
(* class TwoPointInterpolation                                             *)

\* _caseNum is a one-element tuple once assigned, empty before
NoCase == <<>>

\* TwoPointInterpolation(verbose): only the four flags are assigned
TwoPointInterpolation ==
    [pointSetted |-> FALSE, constraintsSetted |-> FALSE,
     initialStateSetted |-> FALSE, trajectoryCalced |-> FALSE,
     t0 |-> U, p0 |-> U, v0 |-> U, pe |-> U, ve |-> U,
     amax_accel |-> U, amax_decel |-> U, vmax |-> U,
     dt |-> <<>>, a |-> <<>>, v |-> <<>>, p |-> <<>>,
     caseNum |-> NoCase, rad |-> 1]

\* what a call leaves behind: the solver, the exception thrown ("none" when
\* it returns) and the values returned
Outcome(s, err, val) == [s |-> s, err |-> err, val |-> val]

\* setInitial without the assignment of line 140
setInitialNoFlag(s, t0, p0, v0) ==
    Outcome([s EXCEPT !.t0 = t0, !.p0 = p0, !.v0 = v0], "none", <<>>)

setInitial(s, t0, p0, v0) ==
    Outcome([s EXCEPT !.t0 = t0, !.p0 = p0, !.v0 = v0,
                      !.initialStateSetted = TRUE], "none", <<>>)

setPoint(s, pe, ve) ==
    Outcome([s EXCEPT !.pe = pe, !.ve = ve, !.pointSetted = TRUE], "none", <<>>)

\* setConstraints with _amax_decel = -dec_max in place of the amax of line 161
setConstraintsNegatedDec(s, amax, vmax, dec_max) ==
    IF Le(1, amax, I(0)) THEN Outcome(s, "InvalidConstraint", <<>>)
    ELSE IF Le(1, vmax, I(0)) THEN Outcome(s, "InvalidConstraint", <<>>)
    ELSE LET s1 == [s EXCEPT !.amax_accel = amax, !.vmax = vmax]
         IN  IF Lt(1, dec_max, I(0))
             THEN Outcome([s1 EXCEPT !.amax_decel = Neg(dec_max),
                                     !.constraintsSetted = TRUE], "none", <<>>)
             ELSE IF dec_max = I(0)
             THEN Outcome(s1, "InvalidConstraint", <<>>)
             ELSE Outcome([s1 EXCEPT !.amax_decel = dec_max,
                                     !.constraintsSetted = TRUE], "none", <<>>)

\* dec_max carries the default argument -1.0 when the caller omits it
setConstraints(s, amax, vmax, dec_max) ==
    IF Le(1, amax, I(0)) THEN Outcome(s, "InvalidConstraint", <<>>)
    ELSE IF Le(1, vmax, I(0)) THEN Outcome(s, "InvalidConstraint", <<>>)
    ELSE LET s1 == [s EXCEPT !.amax_accel = amax, !.vmax = vmax]
         IN  IF Lt(1, dec_max, I(0))
             THEN Outcome([s1 EXCEPT !.amax_decel = amax,
                                     !.constraintsSetted = TRUE], "none", <<>>)
             ELSE IF dec_max = I(0)
             THEN Outcome(s1, "InvalidConstraint", <<>>)
             ELSE Outcome([s1 EXCEPT !.amax_decel = dec_max,
                                     !.constraintsSetted = TRUE], "none", <<>>)

isInitialized(s) ==
    s.pointSetted /\ s.constraintsSetted /\ s.initialStateSetted /\ s.trajectoryCalced

\* init(p0, pe, amax, vmax, t0, v0, ve, dec_max): the three setters in turn;
\* an exception of setConstraints leaves the first two applied
init(s, p0, pe, amax, vmax, t0, v0, ve, dec_max) ==
    setConstraints(setPoint(setInitial(s, t0, p0, v0).s, pe, ve).s, amax, vmax, dec_max)

\* _raiseDecelerationError with the test of line 95 before the test of line 72
raiseDecelerationErrorShortageFirst(s, v0, ve, dp, dec, sign) ==
    LET decel_distance == Div(1, Sub(Mul(1, v0, v0), Mul(1, ve, ve)),
                                 Mul(1, I(2), Fabs(1, dec)))
        toward == Gt(1, Mul(1, sign, v0), I(0))
    IN  IF toward /\ Gt(1, decel_distance, Fabs(1, dp))
        THEN "InsufficientBrakingDistance"
        ELSE IF toward /\ Lt(1, Fabs(1, Sub(decel_distance, Fabs(1, dp))),
                                Mul(1, Fabs(1, dp), DECEL_DISTANCE_TOLERANCE))
        THEN "GoalTooClose"
        ELSE "InfeasibleConstraints"

\* _raiseDecelerationError: the exception it throws (it always throws); the
\* context argument only selects the wording of the message
raiseDecelerationError(s, v0, ve, dp, dec, sign) ==
    LET decel_distance == Div(1, Sub(Mul(1, v0, v0), Mul(1, ve, ve)),
                                 Mul(1, I(2), Fabs(1, dec)))
        toward == Gt(1, Mul(1, sign, v0), I(0))
    IN  IF toward /\ Lt(1, Fabs(1, Sub(decel_distance, Fabs(1, dp))),
                           Mul(1, Fabs(1, dp), DECEL_DISTANCE_TOLERANCE))
        THEN "GoalTooClose"
        ELSE IF toward /\ Gt(1, decel_distance, Fabs(1, dp))
        THEN "InsufficientBrakingDistance"
        ELSE "InfeasibleConstraints"

\* buildProfile without the test of line 262: the triangular profile always
buildProfileTriangular(s, D, dp, acc, dec, dt01root) ==
    LET v1tri == vInteg(D, s.v0, acc, dt01root)
        p1 == pInteg(D, s.p0, s.v0, acc, dt01root)
        dt1e == Fabs(D, Div(D, Sub(v1tri, s.ve), dec))
    IN  Outcome([s EXCEPT !.caseNum = <<0>>,
                          !.dt = <<dt01root, dt1e>>,
                          !.a = <<acc, Neg(dec)>>,
                          !.v = <<s.v0, v1tri>>,
                          !.p = <<s.p0, p1>>], "none", <<>>)

\* lines 260-313: the profile built from the chosen root dt01
buildProfile(s, D, dp, acc, dec, dt01root) ==
    LET v1tri == vInteg(D, s.v0, acc, dt01root)
    IN  IF Lt(D, Fabs(D, v1tri), s.vmax)
        THEN \* case 0: vmax is not reached
             LET p1 == pInteg(D, s.p0, s.v0, acc, dt01root)
                 dt1e == Fabs(D, Div(D, Sub(v1tri, s.ve), dec))
             IN  Outcome([s EXCEPT !.caseNum = <<0>>,
                                   !.dt = <<dt01root, dt1e>>,
                                   !.a = <<acc, Neg(dec)>>,
                                   !.v = <<s.v0, v1tri>>,
                                   !.p = <<s.p0, p1>>], "none", <<>>)
        ELSE \* case 1: the cruise at vmax
             LET v1 == Div(D, Mul(D, s.vmax, dp), Fabs(D, dp))
                 dt01 == Div(D, Sub(v1, s.v0), acc)
                 p1 == pInteg(D, s.p0, s.v0, acc, dt01)
                 v2 == v1
                 dt2e == Fabs(D, Div(D, Sub(v2, s.ve), dec))
                 dp2e == pInteg(D, I(0), v2, Neg(dec), dt2e)
                 dt12 == Div(D, Sub(Sub(s.pe, p1), dp2e), v1)
                 p2 == Sub(s.pe, dp2e)
                 s1 == [s EXCEPT !.caseNum = <<1>>, !.dt = <<dt01>>, !.a = <<acc>>,
                                 !.v = <<s.v0, v1>>, !.p = <<s.p0, p1>>]
             IN  IF Lt(D, dt12, I(0))
                 THEN Outcome(s1, "NumericInvariantViolation", <<>>)
                 ELSE Outcome([s1 EXCEPT !.dt = <<dt01, dt12, dt2e>>,
                                         !.a = <<acc, I(0), Neg(dec)>>,
                                         !.v = <<s.v0, v1, v2>>,
                                         !.p = <<s.p0, p1, p2>>], "none", <<>>)

\* lines 239-258: the two roots of the quadratic and the choice between them;
\* root is the pair Sqrt(discriminant)
chooseRoot(s0, dp, sign, acc, dec, a_coeff, b_coeff, root) ==
    LET sqrt_disc == root[1]
        D == root[2]
        s == [s0 EXCEPT !.rad = D]
        dt01_plus == Div(D, Add(Neg(b_coeff), sqrt_disc), Mul(D, I(2), a_coeff))
        dt01_minus == Div(D, Sub(Neg(b_coeff), sqrt_disc), Mul(D, I(2), a_coeff))
    IN  IF Gt(D, dt01_plus, I(0)) /\ Gt(D, dt01_minus, I(0))
        THEN buildProfile(s, D, dp, acc, dec, Min(D, dt01_plus, dt01_minus))
        ELSE IF Gt(D, dt01_plus, I(0))
        THEN buildProfile(s, D, dp, acc, dec, dt01_plus)
        ELSE IF Gt(D, dt01_minus, I(0))
        THEN buildProfile(s, D, dp, acc, dec, dt01_minus)
        ELSE Outcome(s0, raiseDecelerationError(s0, s0.v0, s0.ve, dp, dec, sign), <<>>)

\* lines 236-239 and 314-316: the test of the discriminant
testDiscriminant(s, dp, sign, acc, dec, a_coeff, b_coeff, discriminant) ==
    IF Gt(1, discriminant, I(0))
    THEN chooseRoot(s, dp, sign, acc, dec, a_coeff, b_coeff, Sqrt(discriminant))
    ELSE Outcome(s, raiseDecelerationError(s, s.v0, s.ve, dp, dec, sign), <<>>)

\* lines 217-237: the tables are cleared, then the coefficients of the quadratic
planMotion(s0, dp) ==
    LET s == [s0 EXCEPT !.dt = <<>>, !.a = <<>>, !.v = <<s0.v0>>, !.p = <<s0.p0>>,
                        !.rad = 1]
        sign == Div(1, dp, Fabs(1, dp))
        acc == Mul(1, s0.amax_accel, sign)
        dec == Mul(1, s0.amax_decel, sign)
        ratio == Div(1, acc, dec)
        a_coeff == Mul(1, Mul(1, Q(1, 2), acc), Add(I(1), ratio))
        b_coeff == Mul(1, s0.v0, Add(I(1), ratio))
        c_coeff == Add(Neg(dp), Div(1, Sub(Mul(1, s0.v0, s0.v0), Mul(1, s0.ve, s0.ve)),
                                       Mul(1, I(2), dec)))
    IN  testDiscriminant(s, dp, sign, acc, dec, a_coeff, b_coeff,
                         Sub(Mul(1, b_coeff, b_coeff),
                             Mul(1, Mul(1, I(4), a_coeff), c_coeff)))

\* finishPlan with the last duration left out of the total
finishPlanShortSum(r) ==
    IF r.err # "none" THEN r
    ELSE Outcome([r.s EXCEPT !.trajectoryCalced = TRUE], "none",
                 <<sum(r.s.dt, Len(r.s.dt) - 1)>>)

\* lines 346-353: the plan is marked calculated and the durations are summed
finishPlan(r) ==
    IF r.err # "none" THEN r
    ELSE Outcome([r.s EXCEPT !.trajectoryCalced = TRUE], "none",
                 <<sum(r.s.dt, Len(r.s.dt))>>)

\* planConfigured without the test of dv of line 201
planConfiguredAnyVelocity(s, dp, dv) ==
    IF dp = I(0)
    THEN Outcome([s EXCEPT !.dt = <<>>, !.a = <<>>, !.v = <<s.v0>>,
                           !.p = <<s.p0>>, !.caseNum = <<-1>>,
                           !.rad = 1, !.trajectoryCalced = TRUE],
                 "none", <<I(0)>>)
    ELSE finishPlan(planMotion(s, dp))

\* lines 196-215: zero displacement, else the plan
planConfigured(s, dp, dv) ==
    IF dp = I(0)
    THEN IF dv = I(0)
         THEN Outcome([s EXCEPT !.dt = <<>>, !.a = <<>>, !.v = <<s.v0>>,
                                !.p = <<s.p0>>, !.caseNum = <<-1>>,
                                !.rad = 1, !.trajectoryCalced = TRUE],
                      "none", <<I(0)>>)
         ELSE Outcome(s, "InvalidGeometry", <<>>)
    ELSE finishPlan(planMotion(s, dp))

\* double calcTrajectory()
calcTrajectory(s) ==
    IF ~s.pointSetted THEN Outcome(s, "NotConfigured", <<>>)
    ELSE IF ~s.constraintsSetted THEN Outcome(s, "NotConfigured", <<>>)
    ELSE IF ~s.initialStateSetted THEN Outcome(s, "NotConfigured", <<>>)
    ELSE planConfigured(s, Sub(s.pe, s.p0), Sub(s.ve, s.v0))

\* the call of calcTrajectory() that follows init(...) when init returns
calcAfterInit(r) == IF r.err # "none" THEN r ELSE calcTrajectory(r.s)

\* double calcTrajectory(p0, pe, amax, vmax, t0, v0, ve, dec_max)
calcTrajectoryArgs(s, p0, pe, amax, vmax, t0, v0, ve, dec_max) ==
    calcAfterInit(init(s, p0, pe, amax, vmax, t0, v0, ve, dec_max))

\* the loop of lines 393-402 with tau < dt_i in place of tau <= dt_i
RECURSIVE findPhaseStrict(_, _, _)
findPhaseStrict(s, tau, i) ==
    IF i > Len(s.dt) THEN 0
    ELSE IF Lt(s.rad, tau, sum(s.dt, i)) THEN i
    ELSE findPhaseStrict(s, tau, i + 1)

\* the phase found by the loop of lines 393-402: the first index whose
\* cumulative end time is >= tau, 0 when the loop finishes without a match
RECURSIVE findPhase(_, _, _)
findPhase(s, tau, i) ==
    IF i > Len(s.dt) THEN 0
    ELSE IF Le(s.rad, tau, sum(s.dt, i)) THEN i
    ELSE findPhase(s, tau, i + 1)

\* getPoint with v = 0 in place of the v = _v0 of line 372
getPointSentinelAtRest(s, t) ==
    IF s.caseNum = <<-1>> THEN <<s.p0, I(0), I(0)>>
    ELSE LET tau == Sub(t, s.t0)
         IN  IF Lt(s.rad, tau, I(0)) THEN <<s.p0, s.v0, I(0)>>
             ELSE IF Ge(s.rad, tau, sum(s.dt, Len(s.dt) + 1)) THEN <<s.pe, s.ve, I(0)>>
             ELSE LET i == findPhase(s, tau, 1)
                      t_in == IF i = 0 THEN tau ELSE Sub(tau, sum(s.dt, i - 1))
                      a_in == IF i = 0 THEN I(0) ELSE s.a[i]
                      v_in == IF i = 0 THEN I(0) ELSE s.v[i]
                      p_in == IF i = 0 THEN I(0) ELSE s.p[i]
                  IN  <<pInteg(s.rad, p_in, v_in, a_in, t_in),
                        vInteg(s.rad, v_in, a_in, t_in), a_in>>

\* getPoint with > in place of the >= of line 384
getPointOpenEnd(s, t) ==
    IF s.caseNum = <<-1>> THEN <<s.p0, s.v0, I(0)>>
    ELSE LET tau == Sub(t, s.t0)
         IN  IF Lt(s.rad, tau, I(0)) THEN <<s.p0, s.v0, I(0)>>
             ELSE IF Gt(s.rad, tau, sum(s.dt, Len(s.dt) + 1)) THEN <<s.pe, s.ve, I(0)>>
             ELSE LET i == findPhase(s, tau, 1)
                      t_in == IF i = 0 THEN tau ELSE Sub(tau, sum(s.dt, i - 1))
                      a_in == IF i = 0 THEN I(0) ELSE s.a[i]
                      v_in == IF i = 0 THEN I(0) ELSE s.v[i]
                      p_in == IF i = 0 THEN I(0) ELSE s.p[i]
                  IN  <<pInteg(s.rad, p_in, v_in, a_in, t_in),
                        vInteg(s.rad, v_in, a_in, t_in), a_in>>

\* std::vector<double> getPoint(t) const: <<pos, v, a>>
getPoint(s, t) ==
    IF s.caseNum = <<-1>> THEN <<s.p0, s.v0, I(0)>>
    ELSE LET tau == Sub(t, s.t0)
         IN  IF Lt(s.rad, tau, I(0)) THEN <<s.p0, s.v0, I(0)>>
             ELSE IF Ge(s.rad, tau, sum(s.dt, Len(s.dt) + 1)) THEN <<s.pe, s.ve, I(0)>>
             ELSE LET i == findPhase(s, tau, 1)
                      t_in == IF i = 0 THEN tau ELSE Sub(tau, sum(s.dt, i - 1))
                      a_in == IF i = 0 THEN I(0) ELSE s.a[i]
                      v_in == IF i = 0 THEN I(0) ELSE s.v[i]
                      p_in == IF i = 0 THEN I(0) ELSE s.p[i]
                  IN  <<pInteg(s.rad, p_in, v_in, a_in, t_in),
                        vInteg(s.rad, v_in, a_in, t_in), a_in>>

-----------------------------------------------------------------------------
(* class TwoPointInterpolationJerk (constant_jerk.hpp)                     *)

\* the integer cube root of n >= 0, rounded down
RECURSIVE CubeUp(_, _)
CubeUp(n, m) == IF (m + 1) * (m + 1) * (m + 1) > n THEN m ELSE CubeUp(n, m + 1)

\* q = n/d is the cube of a rational
CubeExact(q) ==
    LET n == CubeUp(q[1], 0)
        d == CubeUp(q[3], 0)
    IN  q[2] = 0 /\ q[1] >= 0 /\ n * n * n = q[1] /\ d * d * d = q[3]

\* std::pow(q, 1.0/3.0) for such a q
Cbrt(q) == Q(CubeUp(q[1], 0), CubeUp(q[3], 0))

\* the value read from a double: any of the garbage values g when the field
\* was never assigned
Rd(x, g) == IF IsU(x) THEN g ELSE x

\* TwoPointInterpolationJerk(verbose): only the four flags are assigned
TwoPointInterpolationJerk ==
    [pointSetted |-> FALSE, constraintsSetted |-> FALSE,
     initialStateSetted |-> FALSE, trajectoryCalced |-> FALSE,
     t0 |-> U, p0 |-> U, v0 |-> U, ps |-> U, pe |-> U, ve |-> U,
     amax |-> U, vmax |-> U, jmax |-> U,
     t1 |-> U, t2 |-> U, t3 |-> U, te |-> U,
     caseNum |-> NoCase, rad |-> 1]

jerkSetInitialTime(s, time) == Outcome([s EXCEPT !.t0 = time], "none", <<>>)

jerkSetInitial(s, t0, p0, v0) ==
    Outcome([s EXCEPT !.t0 = t0, !.p0 = p0, !.v0 = v0,
                      !.initialStateSetted = TRUE], "none", <<>>)

\* setPoint(ps, pe)
jerkSetPoint2(s, ps, pe) ==
    Outcome([s EXCEPT !.ps = ps, !.pe = pe, !.pointSetted = TRUE], "none", <<>>)

\* setPoint(pe)
jerkSetPoint(s, pe) ==
    Outcome([s EXCEPT !.pe = pe, !.ve = I(0), !.pointSetted = TRUE], "none", <<>>)

\* setConstraints(amax, vmax, jmax)
jerkSetConstraints(s, amax, vmax, jmax) ==
    IF Le(1, amax, I(0)) \/ Le(1, vmax, I(0)) \/ Le(1, jmax, I(0))
    THEN Outcome(s, "InvalidConstraint", <<>>)
    ELSE Outcome([s EXCEPT !.amax = amax, !.vmax = vmax, !.jmax = jmax,
                           !.constraintsSetted = TRUE], "none", <<>>)

\* setConstraints(const std::vector<double>& maxConstraints): [vmax, amax, jmax]
jerkSetConstraintsVec(s, maxConstraints) ==
    IF Len(maxConstraints) # 3 THEN Outcome(s, "InvalidConstraint", <<>>)
    ELSE IF \/ Le(1, maxConstraints[1], I(0))
            \/ Le(1, maxConstraints[2], I(0))
            \/ Le(1, maxConstraints[3], I(0))
    THEN Outcome(s, "InvalidConstraint", <<>>)
    ELSE Outcome([s EXCEPT !.vmax = maxConstraints[1], !.amax = maxConstraints[2],
                           !.jmax = maxConstraints[3],
                           !.constraintsSetted = TRUE], "none", <<>>)

\* set(ps, pe, maxConstraints)
jerkSet(s, ps, pe, maxConstraints) ==
    jerkSetConstraintsVec(jerkSetPoint2(s, ps, pe).s, maxConstraints)

\* init(p0, pe, amax, vmax, jmax, t0, v0, ve)
jerkInit(s, p0, pe, amax, vmax, jmax, t0, v0, ve) ==
    LET s1 == jerkSetPoint(jerkSetInitial(s, t0, p0, v0).s, pe).s
    IN  jerkSetConstraints([s1 EXCEPT !.ve = ve], amax, vmax, jmax)

jerkIsInitialized(s) == s.pointSetted /\ s.constraintsSetted /\ s.trajectoryCalced

\* the start position calcTrajectory and getPoint plan from
jerkStart(s, g) == IF s.initialStateSetted THEN s.p0 ELSE Rd(s.ps, g)

\* |dp| / 2 / jmax, the argument of the cube root of line 167
jerkCubeArg(s, g) ==
    Div(1, Div(1, Fabs(1, Sub(s.pe, jerkStart(s, g))), I(2)), s.jmax)

\* jerkPlanMotion without the tests of lines 170, 171 and 182: case 0 always
jerkPlanMotionUnlimited(s, dp) ==
    LET t1c == Cbrt(Div(1, Div(1, Fabs(1, dp), I(2)), s.jmax))
    IN  [s EXCEPT !.t1 = t1c, !.rad = 1, !.caseNum = <<0>>,
                  !.te = Mul(1, I(4), t1c)]

\* lines 167-200: planning for dp # 0
jerkPlanMotion(s, dp) ==
    LET adp == Fabs(1, dp)
        t1c == Cbrt(Div(1, Div(1, adp, I(2)), s.jmax))
        s0 == [s EXCEPT !.t1 = t1c, !.te = I(0), !.rad = 1]
    IN  IF Lt(1, Mul(1, t1c, s.jmax), s.amax)
        THEN IF Lt(1, Mul(1, Mul(1, t1c, s.jmax), t1c), s.vmax)
             THEN [s0 EXCEPT !.caseNum = <<0>>, !.te = Mul(1, I(4), t1c)]
             ELSE LET root == Sqrt(Div(1, s.vmax, s.jmax))
                      D == root[2]
                      t1 == root[1]
                      t2 == Sub(Div(1, adp, s.vmax), Mul(D, I(2), root[1]))
                  IN  [s0 EXCEPT !.caseNum = <<1>>, !.rad = D, !.t1 = t1, !.t2 = t2,
                                 !.te = Add(Mul(D, I(4), t1), t2)]
        ELSE LET t1 == Div(1, s.amax, s.jmax)
                 root == Sqrt(Add(Div(1, Mul(1, I(4), adp), s.amax),
                                  Mul(1, Mul(1, Q(1, 3), t1), t1)))
                 D == root[2]
                 t2 == Add(Mul(1, Q(-3, 2), t1), Div(D, root[1], I(2)))
             IN  IF Lt(D, Mul(D, Add(t1, t2), s.amax), s.vmax)
                 THEN [s0 EXCEPT !.caseNum = <<2>>, !.rad = D, !.t1 = t1, !.t2 = t2,
                                 !.te = Add(Mul(1, I(4), t1), Mul(D, I(2), t2))]
                 ELSE LET t2b == Sub(Div(1, s.vmax, s.amax), t1)
                          t3 == Sub(Sub(Div(1, adp, s.vmax), Mul(1, I(2), t1)), t2b)
                      IN  [s0 EXCEPT !.caseNum = <<3>>, !.t1 = t1, !.t2 = t2b,
                                     !.t3 = t3,
                                     !.te = Add(Add(Mul(1, I(4), t1),
                                                    Mul(1, I(2), t2b)), t3)]

\* lines 199-200: the plan is marked calculated and _te returned
jerkFinishPlan(r) == Outcome([r EXCEPT !.trajectoryCalced = TRUE], "none", <<r.te>>)

\* lines 153-200, with the start position ps and dp = _pe - ps
jerkPlanConfigured(s, dp, g) ==
    IF dp = I(0)
    THEN IF s.initialStateSetted /\ Rd(s.ve, g) # s.v0
         THEN Outcome(s, "InvalidGeometry", <<>>)
         ELSE Outcome([s EXCEPT !.caseNum = <<-1>>, !.te = I(0),
                                !.t1 = I(0), !.trajectoryCalced = TRUE],
                      "none", <<I(0)>>)
    ELSE jerkFinishPlan(jerkPlanMotion(s, dp))

\* double calcTrajectory(); g is what an uninitialized double reads as
jerkCalcTrajectory(s, g) ==
    IF ~s.pointSetted THEN Outcome(s, "NotConfigured", <<>>)
    ELSE IF ~s.constraintsSetted THEN Outcome(s, "NotConfigured", <<>>)
    ELSE jerkPlanConfigured(s, Sub(s.pe, jerkStart(s, g)), g)

\* lines 278-284: the segment value mirrored for a backward move, shifted by ps
jerkSigned(seg, flip, ps) ==
    IF flip THEN <<Add(Neg(seg[1]), ps), Neg(seg[2]), Neg(seg[3]), Neg(seg[4])>>
    ELSE <<Add(seg[1], ps), seg[2], seg[3], seg[4]>>

\* lines 251-276: <<p, v, a, j>> of the forward profile at 0 <= tau < 4*t1
jerkSegment(D, jmax, t1, tau) ==
    LET M3(x, y, z) == Mul(D, Mul(D, x, y), z)
        M4(w, x, y, z) == Mul(D, Mul(D, Mul(D, w, x), y), z)
        M5(v, w, x, y, z) == Mul(D, Mul(D, Mul(D, Mul(D, v, w), x), y), z)
        tau1 == Sub(tau, t1)
        tau3 == Sub(tau, Mul(D, I(3), t1))
    IN  IF Lt(D, tau, t1)
        THEN <<M5(Q(1, 6), jmax, tau, tau, tau),
               M4(Q(1, 2), jmax, tau, tau),
               Mul(D, jmax, tau),
               jmax>>
        ELSE IF Lt(D, tau, Mul(D, I(3), t1))
        THEN <<Add(Add(Add(M5(Q(-1, 6), jmax, tau1, tau1, tau1),
                           M5(Q(1, 2), jmax, t1, tau1, tau1)),
                       M5(Q(1, 2), jmax, t1, t1, tau1)),
                   M5(Q(1, 6), jmax, t1, t1, t1)),
               Add(Add(M4(Q(-1, 2), jmax, tau1, tau1), M3(jmax, t1, tau1)),
                   M4(Q(1, 2), jmax, t1, t1)),
               Add(Mul(D, Neg(jmax), tau1), Mul(D, jmax, t1)),
               Neg(jmax)>>
        ELSE <<Add(Add(Sub(M5(Q(1, 6), jmax, tau3, tau3, tau3),
                           M5(Q(1, 2), jmax, t1, tau3, tau3)),
                       M5(Q(1, 2), jmax, t1, t1, tau3)),
                   M5(Q(11, 6), jmax, t1, t1, t1)),
               Add(Sub(M4(Q(1, 2), jmax, tau3, tau3), M3(jmax, t1, tau3)),
                   M4(Q(1, 2), jmax, t1, t1)),
               Sub(Mul(D, jmax, tau3), Mul(D, jmax, t1)),
               jmax>>

\* lines 241-293: the sample of case 0 at tau, for a planned solver
jerkCase0(s, ps, tau) ==
    IF Lt(s.rad, tau, I(0))
    THEN <<ps, I(0), I(0), IF Lt(s.rad, s.pe, ps) THEN Neg(s.jmax) ELSE s.jmax>>
    ELSE IF Lt(s.rad, tau, Mul(s.rad, I(4), s.t1))
    THEN jerkSigned(jerkSegment(s.rad, s.jmax, s.t1, tau), Lt(s.rad, s.pe, ps), ps)
    ELSE <<s.pe, I(0), I(0), IF Lt(s.rad, s.pe, ps) THEN Neg(s.jmax) ELSE s.jmax>>

\* std::vector<double> getPoint(t) const: <<p, v, a, j>>; g and gc are what an
\* uninitialized double and an uninitialized _caseNum read as
jerkGetPoint(s, t, g, gc) ==
    LET ps == jerkStart(s, g)
        caseNum == IF s.caseNum = NoCase THEN <<gc>> ELSE s.caseNum
    IN  IF caseNum = <<-1>>
        THEN Outcome(s, "none",
                     <<ps, IF s.initialStateSetted THEN s.v0 ELSE I(0), I(0), I(0)>>)
        ELSE IF ~s.trajectoryCalced THEN Outcome(s, "NotCalculated", <<>>)
        ELSE LET tau == Sub(t, Rd(s.t0, g))
                 flip == Lt(s.rad, s.pe, ps)
             IN  IF caseNum = <<0>> THEN Outcome(s, "none", jerkCase0(s, ps, tau))
                 ELSE IF Lt(s.rad, tau, I(0))
                 THEN Outcome(s, "none",
                              <<ps, IF s.initialStateSetted THEN s.v0 ELSE I(0), I(0),
                                IF flip THEN Neg(s.jmax) ELSE s.jmax>>)
                 ELSE Outcome(s, "none",
                              <<s.pe, IF s.initialStateSetted THEN Rd(s.ve, g) ELSE I(0),
                                I(0), I(0)>>)

-----------------------------------------------------------------------------
(* State                                                                   *)

VARIABLES
    tpi,    \* the TwoPointInterpolation instance
    tpj,    \* the TwoPointInterpolationJerk instance
    ret,    \* the last call: its name, arguments, exception and return values
    done,   \* the setters of tpi that have returned without throwing
    jdone,  \* the inputs of tpj supplied so far: "startTime", "startPosition",
            \* "end", "limits"
    inp     \* the arguments of the planning call checked by SpecPlan

vars == <<tpi, tpj, ret, done, jdone, inp>>

Call(op, arg, err, val) == [op |-> op, arg |-> arg, err |-> err, val |-> val]

NoCall == Call("constructor", <<>>, "none", <<>>)

NoInput == <<>>

-----------------------------------------------------------------------------
(* Bounds of the model                                                     *)

\* positions are the integers 0..MaxPos
MaxPos == 4

\* velocities are the integers -MaxVel..MaxVel
MaxVel == 3

\* sample times t - t0 on the grid are k/2, k in 1..MaxHalfSteps
MaxHalfSteps == 4

Positions == {I(n) : n \in 0..MaxPos}
StartPositions == {I(2)}
Velocities == {I(n) : n \in -MaxVel..MaxVel}
Accelerations == {I(1), I(2)}
VelocityLimits == {I(1), I(2)}
StartTimes == {I(1)}

\* the dec_max argument: the default -1.0 of an omitting caller, or a value
DecArgs == {I(-1)} \cup Accelerations

\* what an uninitialized double, and an uninitialized int, may read as
Garbage == {I(0), I(1)}
GarbageCase == {-1, 0}

\* the choices that matter for solver s: one when nothing is uninitialized
GarbageOf(s) ==
    IF \E f \in {"t0", "p0", "v0", "pe", "ve"} : IsU(s[f]) THEN Garbage ELSE {I(0)}
GarbageCaseOf(s) == IF s.caseNum = NoCase THEN GarbageCase ELSE {0}

\* distance of the samples taken around a phase boundary
Eps == Q(1, 8)

\* the solver with every uninitialized field read as g (gc for _caseNum)
Resolve(s, g, gc) ==
    [s EXCEPT !.t0 = Rd(@, g), !.p0 = Rd(@, g), !.v0 = Rd(@, g),
              !.pe = Rd(@, g), !.ve = Rd(@, g),
              !.caseNum = IF @ = NoCase THEN <<gc>> ELSE @]

\* cumulative phase end times, as absolute times
Boundaries(s) == {Add(s.t0, sum(s.dt, i)) : i \in 0..Len(s.dt)}

\* the boundaries, the times Eps before and after each, and the grid
SampleTimes(s) ==
    {Add(s.t0, Q(k, 2)) : k \in 1..MaxHalfSteps}
        \cup Boundaries(s)
        \cup {Sub(b, Eps) : b \in Boundaries(s)}
        \cup {Add(b, Eps) : b \in Boundaries(s)}

\* the times getPoint is called with: the boundaries and the times Eps
\* outside the first and the last
QueryTimes(s) ==
    LET te == Add(s.t0, sum(s.dt, Len(s.dt)))
    IN  Boundaries(s) \cup {Sub(s.t0, Eps), Add(te, Eps)}

-----------------------------------------------------------------------------
(* Calls on the TwoPointInterpolation instance                             *)

AccCall(op, arg, out, completed) ==
    /\ tpi' = out.s
    /\ ret' = Call(op, arg, out.err, out.val)
    /\ done' = done \cup completed
    /\ UNCHANGED <<tpj, jdone, inp>>

SetInitial(t0, p0, v0) ==
    AccCall("setInitial", <<t0, p0, v0>>, setInitial(tpi, t0, p0, v0), {"setInitial"})

SetPoint(pe, ve) ==
    AccCall("setPoint", <<pe, ve>>, setPoint(tpi, pe, ve), {"setPoint"})

\* setConstraints(amax, vmax): dec_max takes its default -1.0
SetConstraints2(amax, vmax) ==
    LET out == setConstraints(tpi, amax, vmax, I(-1))
    IN  AccCall("setConstraints", <<amax, vmax>>, out,
                IF out.err = "none" THEN {"setConstraints"} ELSE {})

SetConstraints3(amax, vmax, dec_max) ==
    LET out == setConstraints(tpi, amax, vmax, dec_max)
    IN  AccCall("setConstraints", <<amax, vmax, dec_max>>, out,
                IF out.err = "none" THEN {"setConstraints"} ELSE {})

Init8(p0, pe, amax, vmax, t0, v0, ve, dec_max) ==
    LET out == init(tpi, p0, pe, amax, vmax, t0, v0, ve, dec_max)
    IN  AccCall("init", <<p0, pe, amax, vmax, t0, v0, ve, dec_max>>, out,
                {"setInitial", "setPoint"}
                    \cup (IF out.err = "none" THEN {"setConstraints"} ELSE {}))

CalcTrajectory ==
    AccCall("calcTrajectory", <<>>, calcTrajectory(tpi), {})

\* getPoint that re-bases the stored start time on the sampled time
GetPointAdvancing ==
    \E g \in GarbageOf(tpi), gc \in GarbageCaseOf(tpi) :
        LET s == Resolve(tpi, g, gc)
        IN  \E t \in QueryTimes(s) :
                /\ ret' = Call("getPoint", <<t>>, "none", getPoint(s, t))
                /\ tpi' = [tpi EXCEPT !.t0 = t]
                /\ UNCHANGED <<tpj, done, jdone, inp>>

GetPoint ==
    \E g \in GarbageOf(tpi), gc \in GarbageCaseOf(tpi) :
        LET s == Resolve(tpi, g, gc)
        IN  \E t \in QueryTimes(s) :
                /\ ret' = Call("getPoint", <<t>>, "none", getPoint(s, t))
                /\ UNCHANGED <<tpi, tpj, done, jdone, inp>>

\* calcTrajectory(p0, pe, amax, vmax, t0, v0, ve, dec_max) with the arguments inp
PlanFromInputs ==
    LET out == calcTrajectoryArgs(tpi, inp[1], inp[2], inp[3], inp[4],
                                       inp[5], inp[6], inp[7], inp[8])
        ini == init(tpi, inp[1], inp[2], inp[3], inp[4], inp[5], inp[6], inp[7], inp[8])
    IN  AccCall("calcTrajectory", inp, out,
                {"setInitial", "setPoint"}
                    \cup (IF ini.err = "none" THEN {"setConstraints"} ELSE {}))

-----------------------------------------------------------------------------
(* Calls on the TwoPointInterpolationJerk instance                         *)

JerkCall(op, arg, out, supplied) ==
    /\ tpj' = out.s
    /\ ret' = Call(op, arg, out.err, out.val)
    /\ jdone' = jdone \cup supplied
    /\ UNCHANGED <<tpi, done, inp>>

JerkSetInitialTime(time) ==
    JerkCall("jerk.setInitialTime", <<time>>, jerkSetInitialTime(tpj, time),
             {"startTime"})

JerkSetInitial(t0, p0, v0) ==
    JerkCall("jerk.setInitial", <<t0, p0, v0>>, jerkSetInitial(tpj, t0, p0, v0),
             {"startTime", "startPosition"})

JerkSetPoint2(ps, pe) ==
    JerkCall("jerk.setPoint", <<ps, pe>>, jerkSetPoint2(tpj, ps, pe),
             {"startPosition", "end"})

JerkSetPoint(pe) ==
    JerkCall("jerk.setPoint", <<pe>>, jerkSetPoint(tpj, pe), {"end"})

JerkSetConstraints(amax, vmax, jmax) ==
    JerkCall("jerk.setConstraints", <<amax, vmax, jmax>>,
             jerkSetConstraints(tpj, amax, vmax, jmax),
             IF Gt(1, amax, I(0)) /\ Gt(1, vmax, I(0)) /\ Gt(1, jmax, I(0))
             THEN {"limits"} ELSE {})

JerkSetConstraintsVec(maxConstraints) ==
    JerkCall("jerk.setConstraints", <<maxConstraints>>,
             jerkSetConstraintsVec(tpj, maxConstraints),
             IF Len(maxConstraints) = 3 /\ \A i \in 1..3 : Gt(1, maxConstraints[i], I(0))
             THEN {"limits"} ELSE {})

JerkSet(ps, pe, maxConstraints) ==
    JerkCall("jerk.set", <<ps, pe, maxConstraints>>,
             jerkSet(tpj, ps, pe, maxConstraints),
             {"startPosition", "end"} \cup
                 (IF Len(maxConstraints) = 3
                        /\ \A i \in 1..3 : Gt(1, maxConstraints[i], I(0))
                  THEN {"limits"} ELSE {}))

JerkInit(p0, pe, amax, vmax, jmax, t0, v0, ve) ==
    JerkCall("jerk.init", <<p0, pe, amax, vmax, jmax, t0, v0, ve>>,
             jerkInit(tpj, p0, pe, amax, vmax, jmax, t0, v0, ve),
             {"startTime", "startPosition", "end"} \cup
                 (IF Gt(1, amax, I(0)) /\ Gt(1, vmax, I(0)) /\ Gt(1, jmax, I(0))
                  THEN {"limits"} ELSE {}))

\* what the uninitialized doubles of the jerk solver may read as
JerkGarbageOf(s) ==
    IF \E f \in {"t0", "p0", "v0", "ps", "pe", "ve"} : IsU(s[f]) THEN Garbage ELSE {I(0)}

\* the cube root of line 167 is taken, and is the root of a cube of a rational
\* (the only cube roots the exact numbers of this module hold)
JerkPlans(s, g) == s.pointSetted /\ s.constraintsSetted /\ s.pe # jerkStart(s, g)

JerkCalcTrajectory ==
    \E g \in JerkGarbageOf(tpj) :
        /\ JerkPlans(tpj, g) => CubeExact(jerkCubeArg(tpj, g))
        /\ JerkCall("jerk.calcTrajectory", <<>>, jerkCalcTrajectory(tpj, g), {})

\* the times the jerk solver is sampled at: around the start, and the end
JerkQueryTimes(s, g) ==
    {Add(Rd(s.t0, g), d) : d \in {I(-1), I(1)}}
        \cup (IF IsU(s.te) THEN {} ELSE {Add(Rd(s.t0, g), s.te)})

JerkGetPoint ==
    \E g \in JerkGarbageOf(tpj), gc \in GarbageCaseOf(tpj) :
        \E t \in JerkQueryTimes(tpj, g) :
            JerkCall("jerk.getPoint", <<t>>, jerkGetPoint(tpj, t, g, gc), {})

-----------------------------------------------------------------------------
(* Spec: the life cycle of one TwoPointInterpolation instance, every       *)
(* public method callable at any time, over a small set of arguments       *)

LcStartVelocities == {I(0), I(2)}
LcEndPositions == {I(0), I(2)}
LcEndVelocities == {I(0)}
LcAmax == {I(0), I(1), I(2)}
LcVmax == {I(0), I(1)}
LcDecMax == {I(-2), I(0), I(2)}

LcInitArgs ==
    {<<I(0), pe, I(1), I(1), I(1), v0, I(0), dec_max>> :
        pe \in LcEndPositions, v0 \in LcStartVelocities, dec_max \in {I(-1), I(0)}}

Init ==
    /\ tpi = TwoPointInterpolation
    /\ tpj = TwoPointInterpolationJerk
    /\ ret = NoCall
    /\ done = {}
    /\ jdone = {}
    /\ inp = NoInput

Next ==
    \/ \E v0 \in LcStartVelocities : SetInitial(I(1), I(0), v0)
    \/ \E pe \in LcEndPositions, ve \in LcEndVelocities : SetPoint(pe, ve)
    \/ \E amax \in LcAmax, vmax \in LcVmax : SetConstraints2(amax, vmax)
    \/ \E amax \in LcAmax, vmax \in LcVmax, dec_max \in LcDecMax :
           SetConstraints3(amax, vmax, dec_max)
    \/ \E x \in LcInitArgs : Init8(x[1], x[2], x[3], x[4], x[5], x[6], x[7], x[8])
    \/ CalcTrajectory
    \/ GetPoint

Spec == Init /\ [][Next]_vars

-----------------------------------------------------------------------------
(* SpecPlan: one planning call calcTrajectory(p0, pe, amax, vmax, t0, v0,  *)
(* ve, dec_max) on a fresh solver, its arguments drawn from the bounded    *)
(* sets, followed by any number of getPoint calls                          *)

\* a goal re-sent during motion: from v0 = 8 to ve = 1 with dmax = 1 the
\* braking distance 31.5 is longer than the 31 left, by less than 2 percent
NearGoalInputs == {<<I(0), I(31), I(1), I(10), I(1), I(8), I(1), I(1)>>}

\* testConstantAccBasic: init(0.0, 10.0, 2.0, 5.0, 0.0, 0.0, 0.0), dec_max
\* left at its default
ScenarioInputs == {<<I(0), I(10), I(2), I(5), I(0), I(0), I(0), I(-1)>>}

PlanInputs ==
    {<<p0, pe, amax, vmax, t0, v0, ve, dec_max>> :
        p0 \in StartPositions, pe \in Positions, amax \in Accelerations,
        vmax \in VelocityLimits, t0 \in StartTimes, v0 \in Velocities,
        ve \in Velocities, dec_max \in DecArgs}
        \cup NearGoalInputs \cup ScenarioInputs

InitPlan ==
    /\ tpi = TwoPointInterpolation
    /\ tpj = TwoPointInterpolationJerk
    /\ ret = NoCall
    /\ done = {}
    /\ jdone = {}
    /\ inp \in PlanInputs

NextPlan == PlanFromInputs \/ GetPoint

SpecPlan == InitPlan /\ [][NextPlan]_vars

-----------------------------------------------------------------------------
(* SpecJerk: the life cycle of one TwoPointInterpolationJerk instance      *)

JkStartPositions == {I(0), I(2)}
JkEndPositions == {I(2), I(16)}
JkAmax == {I(0), I(2)}
JkVmax == {I(1), I(4)}
JkVectors == {<<I(1), I(2), I(1)>>, <<I(1), I(1)>>}

\* <<p0, pe, v0, ve>> of the init calls: a move from rest, a move with an end
\* velocity, and no move at a velocity that is not zero
JkInitArgs ==
    {<<I(0), I(2), I(0), I(0)>>, <<I(0), I(2), I(0), I(1)>>, <<I(2), I(2), I(1), I(1)>>}

NextJerk ==
    \/ JerkSetInitialTime(I(1))
    \/ \E p0 \in JkStartPositions : JerkSetInitial(I(1), p0, I(0))
    \/ \E pe \in JkEndPositions : JerkSetPoint2(I(0), pe)
    \/ \E pe \in JkStartPositions : JerkSetPoint(pe)
    \/ \E amax \in JkAmax, vmax \in JkVmax : JerkSetConstraints(amax, vmax, I(1))
    \/ \E x \in JkVectors : JerkSetConstraintsVec(x)
    \/ \E x \in JkVectors : JerkSet(I(0), I(2), x)
    \/ \E x \in JkInitArgs : JerkInit(x[1], x[2], I(2), I(1), I(1), I(1), x[3], x[4])
    \/ JerkCalcTrajectory
    \/ JerkGetPoint

SpecJerk == Init /\ [][NextJerk]_vars

-----------------------------------------------------------------------------
(* Properties of the acceleration-limited planner (SpecPlan)               *)

\* calcTrajectory has returned without throwing, for pe # p0
PlanSucceeded == tpi.trajectoryCalced /\ tpi.pe # tpi.p0

\* <<position, velocity>> at the end of stored phase i: its entry state
\* integrated with its acceleration over its full duration
EndOfPhase(i) ==
    <<Add(Add(tpi.p[i], Mul(tpi.rad, tpi.v[i], tpi.dt[i])),
          Mul(tpi.rad, Q(1, 2),
              Mul(tpi.rad, tpi.a[i], Mul(tpi.rad, tpi.dt[i], tpi.dt[i])))),
      Add(tpi.v[i], Mul(tpi.rad, tpi.a[i], tpi.dt[i]))>>

\* |u - w|
Dist(u, w) == Fabs(tpi.rad, Sub(u, w))

\* C1: after every successful plan with pe # p0, the last phase integrated
\* from its stored entry state over its full stored duration ends exactly at
\* position pe with velocity ve.
C1_FinalPhaseReachesTarget ==
    PlanSucceeded => EndOfPhase(Len(tpi.dt)) = <<tpi.pe, tpi.ve>>

\* C2: after every successful plan every stored phase duration is >= 0, and
\* the total time returned by calcTrajectory is the sum of the durations.
C2_DurationsNonNegative ==
    PlanSucceeded =>
        /\ \A i \in 1..Len(tpi.dt) : Ge(tpi.rad, tpi.dt[i], I(0))
        /\ ret.op = "calcTrajectory" => ret.val = <<sum(tpi.dt, Len(tpi.dt))>>

\* C3: after every successful plan the velocity sampled at any time is within
\* vmax in magnitude (a request that cannot be kept within vmax is rejected).
C3_VelocityWithinLimit ==
    PlanSucceeded =>
        \A t \in SampleTimes(tpi) :
            Le(tpi.rad, Fabs(tpi.rad, getPoint(tpi, t)[2]), tpi.vmax)

\* the stored entry state of every phase with a predecessor is the end of
\* that predecessor
TiePointsMatch ==
    \A i \in 1..(Len(tpi.dt) - 1) : <<tpi.p[i + 1], tpi.v[i + 1]>> = EndOfPhase(i)

\* the absolute time at which stored phase i ends
BoundaryAfter(i) == Add(tpi.t0, sum(tpi.dt, i))

\* the larger of the two acceleration limits
MaxAcc ==
    IF Ge(1, tpi.amax_accel, tpi.amax_decel) THEN tpi.amax_accel ELSE tpi.amax_decel

\* the samples at times t and u differ by at most 1.1*Eps*vmax in position
\* and by at most 1.1*Eps*max(amax, dmax) in velocity
Close(t, u) ==
    /\ Le(tpi.rad, Dist(getPoint(tpi, t)[1], getPoint(tpi, u)[1]),
          Mul(1, Q(11, 10), Mul(1, Eps, tpi.vmax)))
    /\ Le(tpi.rad, Dist(getPoint(tpi, t)[2], getPoint(tpi, u)[2]),
          Mul(1, Q(11, 10), Mul(1, Eps, MaxAcc)))

\* C4: after every successful plan the stored entry state of every phase with
\* a predecessor is the predecessor integrated over its full duration, and
\* around every interior boundary b the sample Eps before b and the sample at
\* b, and the sample at b and the sample Eps after b, differ by at most
\* 1.1*Eps*vmax in position and 1.1*Eps*max(amax, dmax) in velocity.
C4_Continuity ==
    PlanSucceeded =>
        /\ TiePointsMatch
        /\ \A i \in 1..(Len(tpi.dt) - 1) :
               /\ Close(Sub(BoundaryAfter(i), Eps), BoundaryAfter(i))
               /\ Close(BoundaryAfter(i), Add(BoundaryAfter(i), Eps))

\* C5: after every successful plan with pe # p0, getPoint(t0) returns the
\* initial state: position p0, velocity v0 and acceleration 0.
C5_SampleAtStart ==
    (PlanSucceeded /\ ret.op = "getPoint" /\ ret.arg = <<tpi.t0>>)
        => ret.val = <<tpi.p0, tpi.v0, I(0)>>

\* the absolute time at which the planned motion ends
EndTime == Add(tpi.t0, sum(tpi.dt, Len(tpi.dt)))

-----------------------------------------------------------------------------
(* Properties of the life cycle of the acceleration-limited solver (Spec)  *)

AllSetters == {"setInitial", "setPoint", "setConstraints"}

\* C7: any call of setInitial, setPoint, setConstraints or init leaves the
\* solver un-planned (isInitialized() false) until calcTrajectory succeeds
\* again, so that whenever isInitialized() is true the stored phase table is
\* the one calcTrajectory computes from the stored inputs.
C7_ReconfigurationInvalidates ==
    /\ ret.op \in AllSetters \cup {"init"} => ~isInitialized(tpi)
    /\ isInitialized(tpi) => calcTrajectory(tpi).s = tpi

\* C8: calcTrajectory throws NotConfigured, computes no profile and does not
\* mark the trajectory calculated as long as one of setInitial, setPoint and
\* setConstraints has not completed without throwing; once all three have, it
\* goes on to planning.
C8_NotConfigured ==
    /\ done # AllSetters =>
           /\ ~tpi.trajectoryCalced
           /\ tpi.dt = <<>>
           /\ ret.op = "calcTrajectory" => ret.err = "NotConfigured"
    /\ (done = AllSetters /\ ret.op = "calcTrajectory") => ret.err # "NotConfigured"

\* calcTrajectory was refused with only setInitial missing
C8_Witness ==
    /\ ret.op = "calcTrajectory"
    /\ ret.err = "NotConfigured"
    /\ done = {"setPoint", "setConstraints"}

\* the dec_max a caller supplied, <<>> when the call omitted it (init passes
\* its own default -1.0 on)
SuppliedDec ==
    IF ret.op = "setConstraints" /\ Len(ret.arg) = 3 THEN <<ret.arg[3]>>
    ELSE IF ret.op = "init" /\ ret.arg[8] # I(-1) THEN <<ret.arg[8]>>
    ELSE <<>>

\* the amax and vmax of the last setConstraints or init call
SuppliedLimits ==
    IF ret.op = "init" THEN <<ret.arg[3], ret.arg[4]>> ELSE <<ret.arg[1], ret.arg[2]>>

\* C10: setConstraints and init throw InvalidConstraint exactly when
\* amax <= 0, or vmax <= 0, or a supplied dmax is <= 0; they succeed otherwise.
C10_InvalidConstraint ==
    ret.op \in {"setConstraints", "init"} =>
        (ret.err = "InvalidConstraint"
            <=> \/ Le(1, SuppliedLimits[1], I(0))
                \/ Le(1, SuppliedLimits[2], I(0))
                \/ SuppliedDec # <<>> /\ Le(1, SuppliedDec[1], I(0)))

-----------------------------------------------------------------------------
(* Properties of the life cycle of the jerk-limited solver (SpecJerk)      *)

AllJerkInputs == {"startTime", "startPosition", "end", "limits"}

\* C9: the jerk solver's calcTrajectory throws NotConfigured whenever the start
\* time, the start position, the end position or the limits have not been
\* supplied, as after setPoint(pe) and setConstraints alone.
C9_JerkNotConfigured ==
    (ret.op = "jerk.calcTrajectory" /\ jdone # AllJerkInputs)
        => ret.err = "NotConfigured"

-----------------------------------------------------------------------------
(* Properties of the planner that compare plans (SpecPlan)                 *)

\* the planning call of inp has been made
Planned == done # {}

\* the same call on a fresh solver with dec_max replaced by dec
PlanWithDec(dec) ==
    calcTrajectoryArgs(TwoPointInterpolation, inp[1], inp[2], inp[3], inp[4],
                       inp[5], inp[6], inp[7], dec)

\* the outcome other is the outcome of the call made: the same solver fields
\* (the phase table among them), the same exception or total time, and the
\* same samples
SameOutcome(other) ==
    /\ other.s = tpi
    /\ ret.op = "calcTrajectory" => (other.err = ret.err /\ other.val = ret.val)
    /\ \A t \in SampleTimes(tpi) : getPoint(other.s, t) = getPoint(tpi, t)

\* C11: a planning call with dec_max omitted leaves the same plan as the call
\* with dec_max = amax and all other arguments equal: the same total time (or
\* the same exception), the same phase table, the same sample at every time.
C11_DefaultDeceleration ==
    (Planned /\ inp[8] = I(-1)) => SameOutcome(PlanWithDec(inp[3]))

\* a plan was computed with dec_max omitted, with the limit amax = 2 that is
\* not the magnitude of the default argument
C11_Witness ==
    /\ PlanSucceeded
    /\ ret.op = "calcTrajectory"
    /\ inp[8] = I(-1)
    /\ inp[3] = I(2)
    /\ tpi.amax_decel = I(2)

-----------------------------------------------------------------------------
(* Properties of the plan without displacement (SpecPlan)                  *)

\* the solver as init leaves it: configured, nothing planned
Configured ==
    init(TwoPointInterpolation, inp[1], inp[2], inp[3], inp[4],
         inp[5], inp[6], inp[7], inp[8]).s

\* C12: with pe = p0, calcTrajectory returns the total time 0 and marks the
\* trajectory calculated if and only if ve = v0; with ve # v0 it throws
\* InvalidGeometry before it computes anything (no field of the solver is
\* written, no quotient by the displacement is formed).
C12_ZeroDisplacement ==
    (ret.op = "calcTrajectory" /\ inp[2] = inp[1]) =>
        IF inp[7] = inp[6]
        THEN ret.err = "none" /\ ret.val = <<I(0)>> /\ tpi.trajectoryCalced
        ELSE ret.err = "InvalidGeometry" /\ tpi = Configured

\* the plan was refused for pe = p0 with ve # v0
C12_Witness ==
    /\ ret.op = "calcTrajectory"
    /\ inp[2] = inp[1]
    /\ inp[7] # inp[6]
    /\ ret.err = "InvalidGeometry"

\* calcTrajectory has returned the no-motion sentinel
NoMotionPlanned == tpi.trajectoryCalced /\ tpi.caseNum = <<-1>>

\* C13: after a plan that produced the no-motion sentinel (pe = p0, ve = v0),
\* getPoint(t) returns (p0, v0, 0) for every t: before t0, at t0 and after t0.
C13_NoMotionSamples ==
    NoMotionPlanned =>
        /\ tpi.pe = tpi.p0 /\ tpi.ve = tpi.v0
        /\ ret.op = "getPoint" => ret.val = <<tpi.p0, tpi.v0, I(0)>>
        /\ \A t \in SampleTimes(tpi) \cup QueryTimes(tpi) :
               getPoint(tpi, t) = <<tpi.p0, tpi.v0, I(0)>>

\* a solver holding the sentinel with a non-zero velocity was sampled after t0
C13_Witness ==
    /\ NoMotionPlanned
    /\ tpi.v0 # I(0)
    /\ ret.op = "getPoint"
    /\ Gt(1, ret.arg[1], tpi.t0)
    /\ ret.val = <<tpi.p0, tpi.v0, I(0)>>

-----------------------------------------------------------------------------
(* Properties of the shape of the planned profile (SpecPlan)               *)

\* a velocity limit that no candidate peak of the bounded inputs reaches
Unlimited == I(1000)

\* the triangular candidate of the inputs inp: the plan of the same inputs
\* with the velocity limit out of reach (the quadratic of lines 231-258 does
\* not mention vmax)
TriangularCandidate ==
    calcTrajectoryArgs(TwoPointInterpolation, inp[1], inp[2], inp[3], Unlimited,
                       inp[5], inp[6], inp[7], inp[8]).s

\* the sign s of the displacement of the stored plan
DirectionSign == Sgn(1, Sub(tpi.pe, tpi.p0))

\* the accelerations s*amax and -s*dmax of the stored plan
AccelOfPlan == Mul(1, I(DirectionSign), tpi.amax_accel)
DecelOfPlan == Neg(Mul(1, I(DirectionSign), tpi.amax_decel))

\* the stored table is the profile the claim gives for the candidate cand,
\* whose first duration is t1 and whose second entry velocity is the peak v1
ShapeFor(cand) ==
    IF Lt(cand.rad, Fabs(cand.rad, Add(tpi.v0, Mul(cand.rad, AccelOfPlan, cand.dt[1]))),
          tpi.vmax)
    THEN /\ Len(tpi.dt) = 2
         /\ tpi.a = <<AccelOfPlan, DecelOfPlan>>
         /\ tpi.dt[1] = cand.dt[1]
         /\ tpi.dt[2] = Div(tpi.rad,
                            Fabs(tpi.rad, Sub(Add(tpi.v0, Mul(tpi.rad, AccelOfPlan,
                                                              tpi.dt[1])), tpi.ve)),
                            tpi.amax_decel)
    ELSE /\ Len(tpi.dt) = 3
         /\ tpi.a = <<AccelOfPlan, I(0), DecelOfPlan>>
         /\ tpi.v[2] = Mul(1, I(DirectionSign), tpi.vmax)
         /\ tpi.v[3] = tpi.v[2]

\* the plan of p0 = 0, pe = 50, amax = 2, dmax = 4, vmax = 8, v0 = ve = 0
ExampleTrapezoid ==
    calcTrajectoryArgs(TwoPointInterpolation, I(0), I(50), I(2), I(8),
                       I(0), I(0), I(0), I(4))

\* the example has three phases and cruises at 8
ExampleShape(r) ==
    /\ r.err = "none"
    /\ r.s.a = <<I(2), I(0), I(-4)>>
    /\ r.s.v[2] = I(8) /\ r.s.v[3] = I(8)

\* C14: a successful plan with pe # p0 has, with s the sign of pe - p0, t1 the
\* root of the triangular candidate and v1 = v0 + s*amax*t1, either
\* |v1| < vmax and exactly the 2 phases of accelerations (s*amax, -s*dmax) and
\* durations (t1, |v1 - ve|/dmax), or |v1| >= vmax and exactly the 3 phases of
\* accelerations (s*amax, 0, -s*dmax) with the middle phase at velocity
\* s*vmax; p0 = 0, pe = 50, amax = 2, dmax = 4, vmax = 8, v0 = ve = 0 gives
\* the 3 phases cruising at 8.
C14_ProfileShape ==
    /\ PlanSucceeded => ShapeFor(TriangularCandidate)
    /\ Planned => ExampleShape(ExampleTrapezoid)

\* a plan with a cruise phase was computed
C14_Witness ==
    /\ PlanSucceeded
    /\ ret.op = "calcTrajectory"
    /\ Len(tpi.dt) = 3
    /\ Gt(tpi.rad, tpi.dt[2], I(0))

-----------------------------------------------------------------------------
(* Properties of the refusal of a plan (SpecPlan)                          *)

\* the coefficients of the quadratic in t1 of the triangular candidate, for
\* the stored inputs: 1/2*acc*(1 + acc/dec), v0*(1 + acc/dec) and
\* -dp + (v0^2 - ve^2)/(2*dec), with acc = s*amax and dec = s*dmax
QuadA ==
    Mul(1, Mul(1, Q(1, 2), AccelOfPlan),
        Add(I(1), Div(1, tpi.amax_accel, tpi.amax_decel)))

QuadB == Mul(1, tpi.v0, Add(I(1), Div(1, tpi.amax_accel, tpi.amax_decel)))

QuadC ==
    Add(Sub(tpi.p0, tpi.pe),
        Div(1, Sub(Mul(1, tpi.v0, tpi.v0), Mul(1, tpi.ve, tpi.ve)),
            Mul(1, I(2), Neg(DecelOfPlan))))

Discriminant == Sub(Mul(1, QuadB, QuadB), Mul(1, I(4), Mul(1, QuadA, QuadC)))

\* neither (-b + root)/(2a) nor (-b - root)/(2a) is strictly positive; root is
\* the pair Sqrt(Discriminant)
NoPositiveRoot(root) ==
    /\ Le(root[2], Div(root[2], Add(Neg(QuadB), root[1]), Mul(1, I(2), QuadA)), I(0))
    /\ Le(root[2], Div(root[2], Sub(Neg(QuadB), root[1]), Mul(1, I(2), QuadA)), I(0))

NoUsableRoot == Le(1, Discriminant, I(0)) \/ NoPositiveRoot(Sqrt(Discriminant))

\* d_brake = (v0^2 - ve^2)/(2*dmax)
BrakeDistance ==
    Div(1, Sub(Mul(1, tpi.v0, tpi.v0), Mul(1, tpi.ve, tpi.ve)),
        Mul(1, I(2), tpi.amax_decel))

\* v0 points toward the target
TowardTarget == Gt(1, Mul(1, I(DirectionSign), tpi.v0), I(0))

\* |d_brake - |dp|| < 0.02*|dp|
WithinTolerance ==
    Lt(1, Fabs(1, Sub(BrakeDistance, Fabs(1, Sub(tpi.pe, tpi.p0)))),
       Mul(1, Q(2, 100), Fabs(1, Sub(tpi.pe, tpi.p0))))

\* d_brake > |dp|
TooShort == Gt(1, BrakeDistance, Fabs(1, Sub(tpi.pe, tpi.p0)))

\* C15: when the quadratic of the triangular candidate has no usable root
\* (discriminant <= 0, or no strictly positive root), calcTrajectory throws:
\* GoalTooClose if v0 points toward the target and |d_brake - |dp|| <
\* 0.02*|dp| (also when d_brake > |dp| holds as well), otherwise
\* InsufficientBrakingDistance if v0 points toward the target and
\* d_brake > |dp|, otherwise InfeasibleConstraints.
C15_FailureClassification ==
    (ret.op = "calcTrajectory" /\ tpi.pe # tpi.p0 /\ NoUsableRoot) =>
        ret.err = IF TowardTarget /\ WithinTolerance THEN "GoalTooClose"
                  ELSE IF TowardTarget /\ TooShort THEN "InsufficientBrakingDistance"
                  ELSE "InfeasibleConstraints"

\* a plan was refused as GoalTooClose with the braking distance both longer
\* than the displacement and within the tolerance
C15_Witness ==
    /\ ret.op = "calcTrajectory"
    /\ NoUsableRoot
    /\ TowardTarget /\ WithinTolerance /\ TooShort
    /\ ret.err = "GoalTooClose"

-----------------------------------------------------------------------------
(* Properties of the cruise phase (SpecPlan)                               *)

\* C16: calcTrajectory never throws NumericInvariantViolation ("Invalid
\* trajectory: cannot reach target"): whenever the triangular candidate has a
\* positive root and is rejected because |v1| >= vmax, the cruise duration
\* computed for the trapezoid is >= 0.
C16_CruiseNeverNegative ==
    ret.op = "calcTrajectory" => ret.err # "NumericInvariantViolation"

-----------------------------------------------------------------------------
(* Properties of the total time (SpecPlan)                                 *)

\* calcTrajectory has just returned a total time
PlanReturned == ret.op = "calcTrajectory" /\ ret.err = "none"

\* C17: the total time returned by every successful plan is at least
\* |pe - p0| / vmax.
C17_MinimumTime ==
    PlanReturned =>
        Ge(tpi.rad, ret.val[1],
           Div(1, Fabs(1, Sub(tpi.pe, tpi.p0)), tpi.vmax))

\* a plan entered and left at vmax was computed: its total time is exactly
\* |pe - p0| / vmax
C17_Witness ==
    /\ PlanReturned
    /\ tpi.pe # tpi.p0
    /\ ret.val[1] = Div(1, Fabs(1, Sub(tpi.pe, tpi.p0)), tpi.vmax)

-----------------------------------------------------------------------------
(* Properties of the total time under a change of dec_max (SpecPlan)       *)

\* u <= w for u written with sqrt(D1) and w with sqrt(D2): the sign of
\* R + P*sqrt(D2) - N*sqrt(D1) over the common denominator, by squaring
LeAcross(D1, u, D2, w) ==
    LET R == w[1] * u[3] - u[1] * w[3]
        P == w[2] * u[3]
        N == u[2] * w[3]
        sA == ISign(P * IAbs(P) * D2 - N * IAbs(N) * D1)
        cross == Sgn(D1 * D2, <<R * R - P * P * D2 - N * N * D1, 2 * P * N, 1>>)
    IN  IF R >= 0 /\ sA >= 0 THEN TRUE
        ELSE IF R <= 0 /\ sA <= 0 THEN R = 0 /\ sA = 0
        ELSE IF R > 0 THEN cross >= 0
        ELSE cross <= 0

\* the deceleration limits the plan of inp is compared with
OtherDecs == Accelerations

\* the total time of the successful plan other is not larger than the total
\* time just returned
NotSlower(other) == LeAcross(other.s.rad, other.val[1], tpi.rad, ret.val[1])

\* the plans of p0 = 0, pe = 30, amax = 2, vmax = 10, v0 = ve = 0 with
\* dec_max = dec
RestToRest(dec) ==
    calcTrajectoryArgs(TwoPointInterpolation, I(0), I(30), I(2), I(10),
                       I(0), I(0), I(0), dec)

\* the plan quick takes strictly less time than the plan slow
StrictlyFaster(quick, slow) ==
    /\ quick.err = "none" /\ slow.err = "none"
    /\ ~LeAcross(slow.s.rad, slow.val[1], quick.s.rad, quick.val[1])

\* C18: of two successful plans that differ only in dec_max, the one with the
\* larger dec_max has a total time not larger than the other's; for amax = 2,
\* vmax = 10, displacement 30 from rest to rest, dec_max = 4 gives a strictly
\* smaller total time than dec_max = 2.
C18_MonotoneInDecMax ==
    PlanReturned =>
        /\ \A dec \in OtherDecs :
               (Gt(1, dec, tpi.amax_decel) /\ PlanWithDec(dec).err = "none")
                   => NotSlower(PlanWithDec(dec))
        /\ StrictlyFaster(RestToRest(I(4)), RestToRest(I(2)))

-----------------------------------------------------------------------------
(* Properties of the jerk-limited planner (SpecJerk)                       *)

\* the start position of the jerk solver is an assigned value
JerkStartKnown == tpj.initialStateSetted \/ ~IsU(tpj.ps)

\* calcTrajectory of the jerk solver has just returned a plan for dp # 0
JerkPlanReturned ==
    /\ ret.op = "jerk.calcTrajectory"
    /\ ret.err = "none"
    /\ JerkStartKnown
    /\ tpj.pe # jerkStart(tpj, I(0))

\* |dp|
JerkDistance == Fabs(1, Sub(tpj.pe, jerkStart(tpj, I(0))))

\* t1c = cbrt(|dp| / (2 jmax)), a_peak = t1c*jmax, v_peak = a_peak*t1c
JerkT1c == Cbrt(Div(1, JerkDistance, Mul(1, I(2), tpj.jmax)))
JerkAPeak == Mul(1, JerkT1c, tpj.jmax)
JerkVPeak == Mul(1, JerkAPeak, JerkT1c)

\* case 1: t1 = sqrt(vmax/jmax) as the pair <<number, radicand>>
JerkRootV == Sqrt(Div(1, tpj.vmax, tpj.jmax))

\* cases 2 and 3: t1 = amax/jmax
JerkT1a == Div(1, tpj.amax, tpj.jmax)

\* case 2: sqrt(4 |dp| / amax + t1^2 / 3) as the pair <<number, radicand>>
JerkRootA ==
    Sqrt(Add(Div(1, Mul(1, I(4), JerkDistance), tpj.amax),
             Div(1, Mul(1, JerkT1a, JerkT1a), I(3))))

\* case 2: t2 = -1.5 t1 + 0.5 sqrt(4 |dp| / amax + t1^2 / 3)
JerkT2a == Add(Mul(1, Q(-3, 2), JerkT1a), Mul(JerkRootA[2], Q(1, 2), JerkRootA[1]))

\* the case and the durations the solver holds
JerkStored(case, rad, t1) == tpj.caseNum = <<case>> /\ tpj.rad = rad /\ tpj.t1 = t1

\* C19: for dp # 0 calcTrajectory of the jerk solver selects case 0 iff
\* a_peak < amax and v_peak < vmax, case 1 iff a_peak < amax and
\* v_peak >= vmax, case 2 iff a_peak >= amax and (t1 + t2)*amax < vmax with
\* t1 = amax/jmax and t2 = -1.5 t1 + 0.5 sqrt(4|dp|/amax + t1^2/3), case 3
\* otherwise, and stores the durations of that case: t1 = t1c; t1 =
\* sqrt(vmax/jmax), t2 = |dp|/vmax - 2 t1; t1 and t2 as above; t1 = amax/jmax,
\* t2 = vmax/amax - t1, t3 = |dp|/vmax - 2 t1 - t2.
C19_JerkCaseSelection ==
    JerkPlanReturned =>
        IF Lt(1, JerkAPeak, tpj.amax)
        THEN IF Lt(1, JerkVPeak, tpj.vmax)
             THEN JerkStored(0, 1, JerkT1c)
             ELSE /\ JerkStored(1, JerkRootV[2], JerkRootV[1])
                  /\ tpj.t2 = Sub(Div(1, JerkDistance, tpj.vmax),
                                  Mul(tpj.rad, I(2), tpj.t1))
        ELSE IF Lt(JerkRootA[2], Mul(JerkRootA[2], Add(JerkT1a, JerkT2a), tpj.amax),
                   tpj.vmax)
             THEN JerkStored(2, JerkRootA[2], JerkT1a) /\ tpj.t2 = JerkT2a
             ELSE /\ JerkStored(3, 1, JerkT1a)
                  /\ tpj.t2 = Sub(Div(1, tpj.vmax, tpj.amax), JerkT1a)
                  /\ tpj.t3 = Sub(Sub(Div(1, JerkDistance, tpj.vmax),
                                      Mul(1, I(2), JerkT1a)), tpj.t2)

\* a plan of case 2 was computed: the acceleration limit is met exactly by the
\* peak of the candidate, the velocity limit is not reached
C19_Witness ==
    /\ JerkPlanReturned
    /\ JerkAPeak = tpj.amax
    /\ tpj.caseNum = <<2>>

\* C20: after every successful plan of the jerk solver with dp # 0, in each
\* of the cases 0, 1, 2 and 3, getPoint(t0) returns the initial state: the
\* start position with zero velocity, acceleration and jerk.
C20_JerkSampleAtStart ==
    (JerkPlanReturned /\ ~IsU(tpj.t0)) =>
        \A g \in JerkGarbageOf(tpj) :
            jerkGetPoint(tpj, tpj.t0, g, 0).val
                = <<jerkStart(tpj, g), I(0), I(0), I(0)>>

\* the absolute time at which the planned jerk-limited motion ends
JerkEndTime == Add(tpj.t0, tpj.te)

\* the sample of the jerk solver at time t, for every value an unassigned
\* field may read as, is the state of rest at position pos
JerkAtRest(t, pos) ==
    \A g \in JerkGarbageOf(tpj) :
        jerkGetPoint(tpj, t, g, 0).val = <<pos, I(0), I(0), I(0)>>

\* C21: after every successful plan of the jerk solver with dp # 0, in each of
\* the cases 0 to 3, getPoint(t) returns (p0, 0, 0, 0) for t < t0 and
\* (pe, 0, 0, 0) for t >= t0 + total time: position held, velocity,
\* acceleration and jerk zero.
C21_JerkClampedOutside ==
    (JerkPlanReturned /\ ~IsU(tpj.t0)) =>
        /\ JerkAtRest(Sub(tpj.t0, I(1)), jerkStart(tpj, I(0)))
        /\ JerkAtRest(JerkEndTime, tpj.pe)
        /\ JerkAtRest(Add(JerkEndTime, I(1)), tpj.pe)

\* the jerk solver is configured with equal start and end positions
JerkNoDisplacement ==
    /\ tpj.pointSetted /\ tpj.constraintsSetted
    /\ JerkStartKnown
    /\ tpj.pe = jerkStart(tpj, I(0))

\* the times the no-motion plan is sampled at
JerkAnyTimes == {I(0), I(1), I(3)}

\* C22: when the start and end positions of the jerk solver are equal,
\* calcTrajectory returns the total time 0 and getPoint(t) then returns
\* (p0, 0, 0, 0) for any t, also after init with a non-zero v0 = ve.
C22_JerkNoMotion ==
    (ret.op = "jerk.calcTrajectory" /\ JerkNoDisplacement) =>
        /\ ret.err = "none"
        /\ ret.val = <<I(0)>>
        /\ \A t \in JerkAnyTimes : JerkAtRest(t, jerkStart(tpj, I(0)))

-----------------------------------------------------------------------------
(* normalizeAxis and class TwoAngleInterpolation (constant_acc.hpp)        *)

\* an angle is <<u, k>> = u + k*pi: u a number, k an integer number of half
\* turns; M_PI is <<I(0), 1>>
Ang(u, k) == <<u, k>>
AngAdd(x, y) == <<Add(x[1], y[1]), x[2] + y[2]>>
AngSub(x, y) == <<Sub(x[1], y[1]), x[2] - y[2]>>

\* x + k * M_PI
AngShift(x, k) == <<x[1], x[2] + k>>

\* 25/8 < pi < 22/7
PiBelow(k) == Q(k * 25, 8)
PiAbove(k) == Q(k * 22, 7)

\* the sign of u + k*pi, decided by the two bounds of pi; no value exists
\* when the bounds disagree
SgnPi(D, u, k) ==
    IF k = 0 THEN Sgn(D, u)
    ELSE LET lo == Sgn(D, Add(u, PiBelow(k)))
             hi == Sgn(D, Add(u, PiAbove(k)))
         IN  IF lo >= 0 /\ hi >= 0 THEN 1
             ELSE IF lo <= 0 /\ hi <= 0 THEN -1
             ELSE CHOOSE n \in {} : TRUE

\* fmod(x, 2 * M_PI): whole turns are taken off towards zero, so the result
\* has the sign of x and a magnitude below 2*pi
RECURSIVE fmod(_, _)
fmod(D, x) ==
    IF SgnPi(D, x[1], x[2] - 2) >= 0 THEN fmod(D, AngShift(x, -2))
    ELSE IF SgnPi(D, x[1], x[2] + 2) <= 0 THEN fmod(D, AngShift(x, 2))
    ELSE x

\* lines 36-40: a negative output is raised by 2 * M_PI, and M_PI taken off
normalizeLifted(D, output) ==
    AngShift(IF SgnPi(D, output[1], output[2]) < 0 THEN AngShift(output, 2) ELSE output,
             -1)

\* inline double normalizeAxis(const double input)
normalizeAxis(D, input) == normalizeLifted(D, fmod(D, AngShift(input, 1)))

\* TwoAngleInterpolation(verbose): the base object; p0pi and pepi are the
\* half turns of pi in the stored _p0 and _pe, whose other part is p0 and pe
TwoAngleInterpolation ==
    [f \in DOMAIN TwoPointInterpolation \cup {"p0pi", "pepi"} |->
        IF f \in DOMAIN TwoPointInterpolation THEN TwoPointInterpolation[f] ELSE 0]

\* lines 444-446: setInitial(t0, p0n, v0), setPoint(target, ve) and
\* setConstraints(amax, vmax, dec_max)
angleInitStore(s, p0n, target, amax, vmax, t0, v0, ve, dec_max) ==
    setConstraints(
        [setPoint([setInitial(s, t0, p0n[1], v0).s EXCEPT !.p0pi = p0n[2]],
                  target[1], ve).s EXCEPT !.pepi = target[2]],
        amax, vmax, dec_max)

\* lines 442-445: dp = normalizeAxis(pen - p0n) and the target p0n + dp
angleInitArc(s, p0n, pen, amax, vmax, t0, v0, ve, dec_max) ==
    angleInitStore(s, p0n, AngAdd(p0n, normalizeAxis(1, AngSub(pen, p0n))),
                   amax, vmax, t0, v0, ve, dec_max)

\* TwoAngleInterpolation::init: p0 and pe are angles
angleInit(s, p0, pe, amax, vmax, t0, v0, ve, dec_max) ==
    angleInitArc(s, normalizeAxis(1, p0), normalizeAxis(1, pe),
                 amax, vmax, t0, v0, ve, dec_max)

\* TwoAngleInterpolation::calcTrajectory(p0, pe, ...): init, then the plan of
\* the base class, which is computed here for a displacement _pe - _p0 free
\* of pi (p0pi = pepi)
angleCalcTrajectory(s, p0, pe, amax, vmax, t0, v0, ve, dec_max) ==
    calcAfterInit(angleInit(s, p0, pe, amax, vmax, t0, v0, ve, dec_max))

\* the half turns of pi in the position the base getPoint returns: those of
\* _p0 (lines 370-383), of _pe (lines 384-387), of the table _p built on _p0
\* (lines 393-402), or none when the loop ends without a match (p_in = 0.0)
getPointTurn(s, t) ==
    IF s.caseNum = <<-1>> THEN s.p0pi
    ELSE IF Lt(s.rad, Sub(t, s.t0), I(0)) THEN s.p0pi
    ELSE IF Ge(s.rad, Sub(t, s.t0), sum(s.dt, Len(s.dt) + 1)) THEN s.pepi
    ELSE IF findPhase(s, Sub(t, s.t0), 1) = 0 THEN 0
    ELSE s.p0pi

\* lines 459-463: result[0] normalized on request
angleResult(D, result, turn, normalize) ==
    <<IF normalize THEN normalizeAxis(D, <<result[1], turn>>) ELSE <<result[1], turn>>,
      result[2], result[3]>>

\* TwoAngleInterpolation::getPoint(t, normalize): <<angle, v, a>>
angleGetPoint(s, t, normalize) ==
    angleResult(s.rad, getPoint(s, t), getPointTurn(s, t), normalize)

-----------------------------------------------------------------------------
(* SpecAngle: normalizeAxis and one TwoAngleInterpolation instance, the    *)
(* arguments of init and calcTrajectory drawn from the bounded sets; the   *)
(* instance is held in tpi                                                 *)

\* start angles 3, -1, 0, pi + 3, pi - 1, pi, ... and end angles -3, 1, 0,
\* -pi - 3, 1 - pi, -pi, ...
AngleStarts == {Ang(u, k) : u \in {I(3), I(-1), I(0)}, k \in {-3, 0, 1}}
AngleEnds == {Ang(u, k) : u \in {I(-3), I(1), I(0)}, k \in {-1, 0, 1}}

\* <<p0, pe, amax, vmax, t0, v0, ve, dec_max>>
AngleInputs ==
    {<<p0, pe, I(1), I(2), I(1), I(0), I(0), I(-1)>> :
        p0 \in AngleStarts, pe \in AngleEnds}

\* init(x) stores a displacement _pe - _p0 free of pi
RationalArc(x) ==
    \E s \in {angleInit(TwoAngleInterpolation, x[1], x[2], x[3], x[4],
                         x[5], x[6], x[7], x[8]).s} : s.p0pi = s.pepi

NormalizeAxis(x) ==
    /\ ret' = Call("normalizeAxis", <<x>>, "none", <<normalizeAxis(1, x)>>)
    /\ UNCHANGED <<tpi, tpj, done, jdone, inp>>

AngleInit ==
    LET out == angleInit(tpi, inp[1], inp[2], inp[3], inp[4],
                              inp[5], inp[6], inp[7], inp[8])
    IN  AccCall("angle.init", inp, out,
                {"setInitial", "setPoint"}
                    \cup (IF out.err = "none" THEN {"setConstraints"} ELSE {}))

AngleCalcTrajectory ==
    /\ RationalArc(inp)
    /\ LET out == angleCalcTrajectory(tpi, inp[1], inp[2], inp[3], inp[4],
                                           inp[5], inp[6], inp[7], inp[8])
       IN  AccCall("angle.calcTrajectory", inp, out,
                   {"setInitial", "setPoint", "setConstraints"})

AngleGetPoint ==
    \E g \in GarbageOf(tpi), gc \in GarbageCaseOf(tpi), normalize \in BOOLEAN :
        LET s == Resolve(tpi, g, gc)
        IN  \E t \in QueryTimes(s) :
                /\ ret' = Call("angle.getPoint", <<t, normalize>>, "none",
                               angleGetPoint(s, t, normalize))
                /\ UNCHANGED <<tpi, tpj, done, jdone, inp>>

InitAngle ==
    /\ tpi = TwoAngleInterpolation
    /\ tpj = TwoPointInterpolationJerk
    /\ ret = NoCall
    /\ done = {}
    /\ jdone = {}
    /\ inp \in AngleInputs

NextAngle ==
    \/ \E x \in {inp[1], inp[2]} : NormalizeAxis(x)
    \/ AngleInit
    \/ AngleCalcTrajectory
    \/ AngleGetPoint

SpecAngle == InitAngle /\ [][NextAngle]_vars

-----------------------------------------------------------------------------
(* Properties of normalizeAxis and TwoAngleInterpolation                   *)

\* x lies in (-pi, pi]
InCanonical(D, x) ==
    /\ SgnPi(D, x[1], x[2] + 1) > 0
    /\ SgnPi(D, x[1], x[2] - 1) <= 0

\* x and y differ by a whole number of turns
Congruent(x, y) ==
    /\ Sub(x[1], y[1]) = I(0)
    /\ (x[2] - y[2]) % 2 = 0

\* C23: normalizeAxis(x) is congruent to x modulo 2*pi and lies in (-pi, pi],
\* the upper end included and the lower end excluded: normalizeAxis(pi) = pi
\* and normalizeAxis(-pi) = pi.
C23_NormalizeAxis ==
    ret.op = "normalizeAxis" =>
        LET x == ret.arg[1]
            r == ret.val[1]
        IN  /\ Congruent(r, x)
            /\ InCanonical(1, r)
            /\ (x \in {Ang(I(0), 1), Ang(I(0), -1)} => r = Ang(I(0), 1))

\* the angles init stored: the start _p0 and the displacement _pe - _p0
StoredStart == Ang(tpi.p0, tpi.p0pi)
StoredArc == Ang(Sub(tpi.pe, tpi.p0), tpi.pepi - tpi.p0pi)

\* |x| <= pi
WithinHalfTurn(D, x) ==
    /\ SgnPi(D, x[1], x[2] - 1) <= 0
    /\ SgnPi(D, x[1], x[2] + 1) >= 0

\* init of the angle solver, alone or inside calcTrajectory, has returned
AngleConfigured ==
    \/ ret.op = "angle.init" /\ ret.err = "none"
    \/ ret.op = "angle.calcTrajectory" /\ ret.err \notin {"InvalidConstraint"}

\* the start is normalizeAxis(p0), the displacement is congruent to pe - p0
\* and at most half a turn long
ShortestArcStored ==
    AngleConfigured =>
        /\ StoredStart = normalizeAxis(1, inp[1])
        /\ Congruent(StoredArc, AngSub(inp[2], inp[1]))
        /\ WithinHalfTurn(1, StoredArc)

\* p0 = 3.0, pe = -3.0: the displacement is 2*pi - 6 > 0
SeamExample ==
    (AngleConfigured /\ inp[1] = Ang(I(3), 0) /\ inp[2] = Ang(I(-3), 0)) =>
        /\ StoredArc = Ang(I(-6), 2)
        /\ SgnPi(1, StoredArc[1], StoredArc[2]) > 0

\* every normalized sample of the planned motion lies in (-pi, pi]
SamplesCanonical ==
    (ret.op = "angle.calcTrajectory" /\ ret.err = "none") =>
        \A t \in SampleTimes(tpi) :
            InCanonical(tpi.rad, angleGetPoint(tpi, t, TRUE)[1])

\* C24: TwoAngleInterpolation::init stores the start normalize(p0) and the
\* target start + d with d congruent to pe - p0 modulo 2*pi and |d| <= pi
\* (p0 = 3, pe = -3 gives d = 2*pi - 6 > 0), and with normalize = true every
\* position returned by getPoint lies in the canonical interval (-pi, pi].
C24_ShortestArc ==
    /\ ShortestArcStored
    /\ SeamExample
    /\ SamplesCanonical

-----------------------------------------------------------------------------
(* Scenario S1 (SpecPlan)                                                  *)

\* the plan of testConstantAccBasic has just returned
ScenarioPlanned == PlanReturned /\ inp \in ScenarioInputs

\* |u - q| <= tol
Near(D, u, q, tol) == Le(D, Fabs(D, Sub(u, q)), tol)

\* the stored plan is the 2-phase triangular Case 0
TwoPhaseTriangular ==
    /\ tpi.caseNum = <<0>>
    /\ Len(tpi.dt) = 2
    /\ tpi.a = <<tpi.amax_accel, Neg(tpi.amax_decel)>>

\* the velocity at the end of the first phase
PeakVelocity == tpi.v[2]

\* C25 as stated: for p0 = 0, pe = 10, amax = 2, vmax = 5, v0 = ve = 0 the
\* plan is the 2-phase triangular Case 0 with total time 3.236 s and peak
\* velocity 3.24, to the digits given.
C25_ScenarioS1 ==
    ScenarioPlanned =>
        /\ TwoPhaseTriangular
        /\ Near(tpi.rad, ret.val[1], Q(3236, 1000), Q(1, 1000))
        /\ Near(tpi.rad, PeakVelocity, Q(324, 100), Q(1, 100))

\* C25 amended: for p0 = 0, pe = 10, amax = 2, vmax = 5, v0 = ve = 0 the plan
\* is the 2-phase triangular Case 0 with two phases of sqrt(5) s each, total
\* time 2*sqrt(5) = 4.472 s and peak velocity 2*sqrt(5) = 4.47, below vmax.
C25_ScenarioS1Amended ==
    ScenarioPlanned =>
        /\ TwoPhaseTriangular
        /\ tpi.rad = 5
        /\ tpi.dt = <<Sqrt(I(5))[1], Sqrt(I(5))[1]>>
        /\ ret.val[1] = Mul(5, I(2), Sqrt(I(5))[1])
        /\ PeakVelocity = Mul(5, I(2), Sqrt(I(5))[1])
        /\ Near(5, ret.val[1], Q(4472, 1000), Q(1, 1000))
        /\ Near(5, PeakVelocity, Q(447, 100), Q(1, 100))
        /\ Lt(5, PeakVelocity, tpi.vmax)

\* the plan of scenario S1 was computed and returned a total time
C25_Witness ==
    /\ ScenarioPlanned
    /\ tpi.trajectoryCalced
    /\ Gt(tpi.rad, ret.val[1], I(0))

-----------------------------------------------------------------------------
(* SpecSample: one instance of each solver, planned with the arguments inp *)
(* and sampled in any order                                                *)

\* <<p0, pe, amax, vmax, t0, v0, ve, dec_max, jmax>>
SampleInputs ==
    {<<I(0), pe, I(2), vmax, I(1), I(0), I(0), dec_max, I(1)>> :
        pe \in JkEndPositions, vmax \in JkVmax, dec_max \in DecArgs}

InitSample ==
    /\ tpi = TwoPointInterpolation
    /\ tpj = TwoPointInterpolationJerk
    /\ ret = NoCall
    /\ done = {}
    /\ jdone = {}
    /\ inp \in SampleInputs

NextSample ==
    \/ PlanFromInputs
    \/ GetPoint
    \/ JerkInit(inp[1], inp[2], inp[3], inp[4], inp[9], inp[5], inp[6], inp[7])
    \/ JerkCalcTrajectory
    \/ JerkGetPoint

SpecSample == InitSample /\ [][NextSample]_vars

-----------------------------------------------------------------------------
(* Properties of sampling (SpecSample)                                     *)

\* the plan of the jerk solver has succeeded, from a start and an end velocity
\* that were assigned
JerkReady == jerkIsInitialized(tpj) /\ tpj.initialStateSetted /\ ~IsU(tpj.ve)

\* a getPoint call of the acceleration solver leaves the solver as it was
\* and, after a successful plan, returns the sample of that stored plan
AccSampleReadOnly ==
    ret'.op = "getPoint" =>
        /\ tpi' = tpi /\ tpj' = tpj
        /\ isInitialized(tpi) => ret'.val = getPoint(tpi, ret'.arg[1])

\* the same for the jerk solver
JerkSampleReadOnly ==
    ret'.op = "jerk.getPoint" =>
        /\ tpi' = tpi /\ tpj' = tpj
        /\ JerkReady =>
               \A g \in JerkGarbageOf(tpj) :
                   /\ ret'.err = jerkGetPoint(tpj, ret'.arg[1], g, 0).err
                   /\ ret'.val = jerkGetPoint(tpj, ret'.arg[1], g, 0).val

-----------------------------------------------------------------------------
(* Properties of interior samples (SpecPlan)                               *)

\* the offsets tau = t - t0 of the sample times with 0 <= tau < total time
InteriorOffsets ==
    {tau \in {Sub(t, tpi.t0) : t \in SampleTimes(tpi)} :
        /\ Ge(tpi.rad, tau, I(0))
        /\ Lt(tpi.rad, tau, sum(tpi.dt, Len(tpi.dt)))}

\* the phases whose cumulative end time is >= tau
PhasesEndingAfter(tau) ==
    {i \in 1..Len(tpi.dt) : Ge(tpi.rad, sum(tpi.dt, i), tau)}

\* the least element of a set of phase indices
FirstOf(S) == CHOOSE i \in S : \A k \in S : i <= k

\* the first of them
FirstPhase(tau) == FirstOf(PhasesEndingAfter(tau))

\* <<p_i + v_i*x + a_i*x*x/2, v_i + a_i*x, a_i>>: the entry state of phase i
\* carried over x at the acceleration of the phase
PhaseState(i, x) ==
    <<Add(tpi.p[i],
          Add(Mul(tpi.rad, tpi.v[i], x),
              Mul(tpi.rad, Q(1, 2), Mul(tpi.rad, tpi.a[i], Mul(tpi.rad, x, x))))),
      Add(tpi.v[i], Mul(tpi.rad, tpi.a[i], x)),
      tpi.a[i]>>

\* the sample at offset tau is the state of phase i at tau
SampleOfPhase(tau, i) ==
    getPoint(tpi, Add(tpi.t0, tau)) = PhaseState(i, Sub(tau, sum(tpi.dt, i - 1)))

\* the sample at offset tau is that of the first phase ending at or after tau
InteriorSample(tau) ==
    /\ PhasesEndingAfter(tau) # {}
    /\ SampleOfPhase(tau, FirstPhase(tau))

\* C27: for a planned profile and 0 <= tau = t - t0 < total time, getPoint
\* selects the first phase i whose cumulative end time is >= tau, so that a
\* query on an interior boundary is answered from the earlier phase, and
\* returns (p_i + v_i*x + a_i*x*x/2, v_i + a_i*x, a_i) with x = tau less the
\* durations before phase i; every such tau is matched by some phase.
C27_InteriorSampling ==
    (PlanReturned /\ tpi.caseNum # <<-1>>) =>
        \A tau \in InteriorOffsets : InteriorSample(tau)

\* a sample taken exactly on the boundary between two phases of different
\* acceleration carries the acceleration of the earlier one
C27_Witness ==
    /\ isInitialized(tpi)
    /\ ret.op = "getPoint"
    /\ Len(tpi.dt) >= 2
    /\ Gt(tpi.rad, tpi.dt[1], I(0))
    /\ ret.arg[1] = Add(tpi.t0, tpi.dt[1])
    /\ tpi.a[1] # tpi.a[2]
    /\ ret.val[3] = tpi.a[1]

-----------------------------------------------------------------------------
(* Properties of the jerk-limited durations (SpecJerk)                     *)

\* u >= 0
NonNegative(u) == Ge(tpj.rad, u, I(0))

\* 4*t1 + 2*t2 + t3 for the durations given
JerkTotal(t1, t2, t3) ==
    Add(Add(Mul(tpj.rad, I(4), t1), Mul(tpj.rad, I(2), t2)), t3)

\* C28: after a successful plan of the jerk solver with dp # 0 every duration
\* the selected case uses is non-negative and the total time is 4*t1 (case
\* 0), 4*t1 + t2 (case 1), 4*t1 + 2*t2 (case 2) or 4*t1 + 2*t2 + t3 (case 3),
\* hence positive, for all positive amax, vmax and jmax.
C28_JerkDurations ==
    JerkPlanReturned =>
        /\ Gt(tpj.rad, tpj.te, I(0))
        /\ tpj.caseNum = <<0>> =>
               NonNegative(tpj.t1) /\ tpj.te = JerkTotal(tpj.t1, I(0), I(0))
        /\ tpj.caseNum = <<1>> =>
               /\ NonNegative(tpj.t1) /\ NonNegative(tpj.t2)
               /\ tpj.te = Add(Mul(tpj.rad, I(4), tpj.t1), tpj.t2)
        /\ tpj.caseNum = <<2>> =>
               /\ NonNegative(tpj.t1) /\ NonNegative(tpj.t2)
               /\ tpj.te = JerkTotal(tpj.t1, tpj.t2, I(0))
        /\ tpj.caseNum = <<3>> =>
               /\ NonNegative(tpj.t1) /\ NonNegative(tpj.t2) /\ NonNegative(tpj.t3)
               /\ tpj.te = JerkTotal(tpj.t1, tpj.t2, tpj.t3)

-----------------------------------------------------------------------------
(* Properties of failed calls (Spec)                                       *)

\* the call that has just ended is a setConstraints or an init that threw
\* InvalidConstraint
ConfigurationFailed ==
    /\ ret'.op \in {"setConstraints", "init"}
    /\ ret'.err = "InvalidConstraint"

\* C29: a setConstraints or init call that throws InvalidConstraint leaves
\* every stored field of the solver (amax, dmax, vmax, initial state, target
\* and the configured flags) exactly as it was before the call.
C29_FailedConfigurationAtomic == [][ConfigurationFailed => tpi' = tpi]_vars

\* the planned profile: the phase table and the case tag
Profile(s) == <<s.dt, s.a, s.v, s.p, s.caseNum>>

\* the call that has just ended is a calcTrajectory that threw
PlanFailed == ret'.op = "calcTrajectory" /\ ret'.err # "none"

\* C30: after any calcTrajectory call of the acceleration solver that throws,
\* either the previously planned profile (phase table and case tag) is
\* completely unchanged or isInitialized() returns false, so that a solver
\* that reports itself initialized holds the complete result of its most
\* recent successful plan.
C30_FailedPlanNotHalfBuilt ==
    [][PlanFailed => (Profile(tpi') = Profile(tpi) \/ ~isInitialized(tpi'))]_vars

====
